---- MODULE Spec2Model ----
(***************************************************************************)
(* JsonObject (owning document) and JsonView (non-owning cursor) of        *)
(* source/JsonObject.cpp, over a heap of cJSON nodes.                      *)
(*                                                                         *)
(* A cJSON node is a heap cell: its type tag, its name (the `string`       *)
(* field), its string and number value and the list of its children (the   *)
(* child/next chain).  A JsonObject is a slot holding m_value (the address *)
(* of its root cell or NULL), m_wasParseSuccessful and m_errorMessage.     *)
(* JSON text is a sequence of lexical tokens.                              *)
(***************************************************************************)
EXTENDS Integers, Sequences, FiniteSets, TLC

(* ------------------------------ bounds --------------------------------- *)

\* number of heap cells
MaxNodes == 4

\* number of JsonObject slots (locals, vector elements)
NDocs == 2

\* number of cells AsNull may leave allocated and unowned in one run
MaxLeaked == 1

(* ------------------------------ domains -------------------------------- *)

NULL == 0

Ids == 1..MaxNodes

Docs == 1..NDocs

Keys == {"Key", "key"}

Strs == {"a", "b"}

Nums == {3}

NoName == "<none>"

\* the lower-case form of a key (used to state case-sensitivity)
Lower(s) == IF s = "Key" THEN "key" ELSE s

(* ------------------------------ cJSON nodes ---------------------------- *)

FreeNode == [type |-> "Free", string |-> NoName, valuestring |-> "", valuedouble |-> 0, child |-> <<>>]

\* a cell that was handed to cJSON_Delete while it was not allocated
Poisoned == [type |-> "DoubleFreed", string |-> NoName, valuestring |-> "", valuedouble |-> 0, child |-> <<>>]

Node(t, s, n) == [type |-> t, string |-> NoName, valuestring |-> s, valuedouble |-> n, child |-> <<>>]

EmptyHeap == [i \in Ids |-> FreeNode]

FreeIds(h) == {i \in Ids : h[i].type = "Free"}

Allocated(h) == {i \in Ids : h[i].type \notin {"Free", "DoubleFreed"}}

NewId(h) == CHOOSE i \in FreeIds(h) : \A j \in FreeIds(h) : i <= j

\* allocate one cell holding node nd: [h, id]
New(h, nd) == [h |-> [h EXCEPT ![NewId(h)] = nd], id |-> NewId(h)]

cJSON_CreateObject(h) == New(h, Node("Object", "", 0))

cJSON_CreateArray(h) == New(h, Node("Array", "", 0))

cJSON_CreateString(h, s) == New(h, Node("String", s, 0))

cJSON_CreateNumber(h, n) == New(h, Node("Number", "", n))

cJSON_CreateBool(h, b) == New(h, Node(IF b THEN "True" ELSE "False", "", 0))

cJSON_CreateNull(h) == New(h, Node("Null", "", 0))

RECURSIVE Reach(_, _)
\* the cells of the subtree rooted at n
Reach(h, n) ==
  IF n = NULL THEN {}
  ELSE {n} \cup UNION {Reach(h, h[n].child[i]) : i \in 1..Len(h[n].child)}

\* cJSON_Delete: frees n and, recursively, its children; NULL is a no-op
cJSON_Delete(h, n) ==
  [i \in Ids |->
     IF i \in Reach(h, n)
     THEN (IF h[i].type \in {"Free", "DoubleFreed"} THEN Poisoned ELSE FreeNode)
     ELSE h[i]]

RECURSIVE cJSON_Duplicate(_, _)
RECURSIVE DuplicateChildren(_, _, _)
\* cJSON_Duplicate(item, recurse = 1): [h, id]; NULL duplicates to NULL
cJSON_Duplicate(h, n) ==
  IF n = NULL THEN [h |-> h, id |-> NULL]
  ELSE LET a == New(h, [h[n] EXCEPT !.child = <<>>])
           r == DuplicateChildren(a.h, h[n].child, <<>>)
       IN [h |-> [r.h EXCEPT ![a.id].child = r.ids], id |-> a.id]

DuplicateChildren(h, cs, acc) ==
  IF cs = <<>> THEN [h |-> h, ids |-> acc]
  ELSE LET r == cJSON_Duplicate(h, Head(cs))
       IN DuplicateChildren(r.h, Tail(cs), Append(acc, r.id))

\* cJSON_AddItemToArray: appends item to array's children; refuses a NULL item
cJSON_AddItemToArray(h, array, item) ==
  IF item = NULL \/ array = NULL \/ array = item THEN h
  ELSE [h EXCEPT ![array].child = Append(@, item)]

\* cJSON_AddItemToObject: names the item and appends it
cJSON_AddItemToObject(h, object, key, item) ==
  IF item = NULL \/ object = NULL \/ object = item THEN h
  ELSE [h EXCEPT ![item].string = key, ![object].child = Append(@, item)]

RECURSIVE FindItem(_, _, _, _)
\* get_object_item(case_sensitive): position of the first child named key;
\* the scan stops at a child without a name.  0 when there is none.
FindItem(h, cs, key, i) ==
  IF i > Len(cs) THEN 0
  ELSE IF h[cs[i]].string = NoName THEN 0
  ELSE IF h[cs[i]].string = key THEN i
  ELSE FindItem(h, cs, key, i + 1)

cJSON_GetObjectItemCaseSensitive(h, object, key) ==
  IF object = NULL THEN NULL
  ELSE LET p == FindItem(h, h[object].child, key, 1)
       IN IF p = 0 THEN NULL ELSE h[object].child[p]

\* cJSON_ReplaceItemInObjectCaseSensitive: the replacement takes the place
\* of the first child named key, which is deleted
cJSON_ReplaceItemInObjectCaseSensitive(h, object, key, item) ==
  LET p == FindItem(h, h[object].child, key, 1)
      old == h[object].child[p]
      h1 == [h EXCEPT ![item].string = key, ![object].child = [@ EXCEPT ![p] = item]]
  IN IF item = NULL \/ p = 0 THEN h
     ELSE cJSON_Delete(h1, old)

cJSON_IsObject(h, n) == n # NULL /\ h[n].type = "Object"

cJSON_IsArray(h, n) == n # NULL /\ h[n].type = "Array"

cJSON_IsString(h, n) == n # NULL /\ h[n].type = "String"

cJSON_IsNumber(h, n) == n # NULL /\ h[n].type = "Number"

cJSON_IsBool(h, n) == n # NULL /\ h[n].type \in {"True", "False"}

cJSON_IsTrue(h, n) == n # NULL /\ h[n].type = "True"

cJSON_IsNull(h, n) == n # NULL /\ h[n].type = "Null"

(* ------------------------------ JSON text ------------------------------ *)

Tok(t) == [t |-> t, s |-> "", n |-> 0]

StrTok(s) == [t |-> "str", s |-> s, n |-> 0]

NumTok(n) == [t |-> "num", s |-> "", n |-> n]

RECURSIVE cJSON_PrintUnformatted(_, _)
RECURSIVE PrintItems(_, _, _, _)
\* cJSON_PrintUnformatted: the compact text of the subtree at n.  Only arrays
\* and objects print their children; an array prints no names.
cJSON_PrintUnformatted(h, n) ==
  LET t == h[n].type IN
  CASE t = "Null" -> <<Tok("null")>>
    [] t = "True" -> <<Tok("true")>>
    [] t = "False" -> <<Tok("false")>>
    [] t = "Number" -> <<NumTok(h[n].valuedouble)>>
    [] t = "String" -> <<StrTok(h[n].valuestring)>>
    [] t = "Array" -> <<Tok("[")>> \o PrintItems(h, h[n].child, 1, FALSE) \o <<Tok("]")>>
    [] t = "Object" -> <<Tok("{")>> \o PrintItems(h, h[n].child, 1, TRUE) \o <<Tok("}")>>
    [] OTHER -> <<>>

PrintItems(h, cs, i, named) ==
  IF i > Len(cs) THEN <<>>
  ELSE (IF named
        THEN <<StrTok(IF h[cs[i]].string = NoName THEN "" ELSE h[cs[i]].string), Tok(":")>>
        ELSE <<>>)
       \o cJSON_PrintUnformatted(h, cs[i])
       \o (IF i < Len(cs) THEN <<Tok(",")>> ELSE <<>>)
       \o PrintItems(h, cs, i + 1, named)

ParseOk(h, id, pos) == [ok |-> TRUE, h |-> h, id |-> id, pos |-> pos]

ParseFail(h, pos) == [ok |-> FALSE, h |-> h, id |-> NULL, pos |-> pos]

IsTok(toks, i, t) == i <= Len(toks) /\ toks[i].t = t

RECURSIVE parse_value(_, _, _)
RECURSIVE parse_array(_, _, _, _)
RECURSIVE parse_object(_, _, _, _)
\* parse_value: the value starting at token i, built in the heap
parse_value(h, toks, i) ==
  IF i > Len(toks) THEN ParseFail(h, i)
  ELSE LET tk == toks[i] IN
    CASE tk.t = "null" -> LET a == cJSON_CreateNull(h) IN ParseOk(a.h, a.id, i + 1)
      [] tk.t = "true" -> LET a == cJSON_CreateBool(h, TRUE) IN ParseOk(a.h, a.id, i + 1)
      [] tk.t = "false" -> LET a == cJSON_CreateBool(h, FALSE) IN ParseOk(a.h, a.id, i + 1)
      [] tk.t = "num" -> LET a == cJSON_CreateNumber(h, tk.n) IN ParseOk(a.h, a.id, i + 1)
      [] tk.t = "str" -> LET a == cJSON_CreateString(h, tk.s) IN ParseOk(a.h, a.id, i + 1)
      [] tk.t = "[" ->
           LET a == cJSON_CreateArray(h) IN
           IF IsTok(toks, i + 1, "]") THEN ParseOk(a.h, a.id, i + 2)
           ELSE parse_array(a.h, toks, i + 1, a.id)
      [] tk.t = "{" ->
           LET a == cJSON_CreateObject(h) IN
           IF IsTok(toks, i + 1, "}") THEN ParseOk(a.h, a.id, i + 2)
           ELSE parse_object(a.h, toks, i + 1, a.id)
      [] OTHER -> ParseFail(h, i)

\* the elements of an array, from token i, up to the closing bracket
parse_array(h, toks, i, arr) ==
  LET r == parse_value(h, toks, i) IN
  IF ~r.ok THEN r
  ELSE LET h1 == cJSON_AddItemToArray(r.h, arr, r.id) IN
       IF IsTok(toks, r.pos, ",") THEN parse_array(h1, toks, r.pos + 1, arr)
       ELSE IF IsTok(toks, r.pos, "]") THEN ParseOk(h1, arr, r.pos + 1)
       ELSE ParseFail(h1, r.pos)

\* the members of an object, from token i, up to the closing brace
parse_object(h, toks, i, obj) ==
  IF ~(IsTok(toks, i, "str") /\ IsTok(toks, i + 1, ":"))
  THEN ParseFail(h, IF IsTok(toks, i, "str") THEN i + 1 ELSE i)
  ELSE LET r == parse_value(h, toks, i + 2) IN
       IF ~r.ok THEN r
       ELSE LET h1 == cJSON_AddItemToObject(r.h, obj, toks[i].s, r.id) IN
            IF IsTok(toks, r.pos, ",") THEN parse_object(h1, toks, r.pos + 1, obj)
            ELSE IF IsTok(toks, r.pos, "}") THEN ParseOk(h1, obj, r.pos + 1)
            ELSE ParseFail(h1, r.pos)

\* cJSON_ParseWithOpts: the tree of the text, or NULL (nothing stays
\* allocated) with the position of the error
cJSON_ParseWithOpts(h, toks) ==
  LET r == parse_value(h, toks, 1) IN
  IF r.ok THEN r ELSE ParseFail(h, r.pos)

\* the number of cells the parser may allocate for a text
ParseCells(toks) ==
  Cardinality({i \in 1..Len(toks) :
                 /\ toks[i].t \in {"null", "true", "false", "num", "str", "[", "{"}
                 /\ ~(toks[i].t = "str" /\ IsTok(toks, i + 1, ":"))})

RECURSIVE cJSON_Compare(_, _, _)
\* cJSON_Compare(a, b, case_sensitive = 1): structural comparison; a null
\* tree equals a null tree
cJSON_Compare(h, a, b) ==
  IF a = NULL \/ b = NULL THEN a = b
  ELSE IF h[a].type # h[b].type THEN FALSE
  ELSE IF a = b THEN TRUE
  ELSE LET t == h[a].type
           ca == h[a].child
           cb == h[b].child
       IN CASE t \in {"Null", "True", "False"} -> TRUE
            [] t = "Number" -> h[a].valuedouble = h[b].valuedouble
            [] t = "String" -> h[a].valuestring = h[b].valuestring
            [] t = "Array" ->
                 /\ Len(ca) = Len(cb)
                 /\ \A i \in 1..Len(ca) : cJSON_Compare(h, ca[i], cb[i])
            [] t = "Object" ->
                 /\ \A i \in 1..Len(ca) :
                      LET o == cJSON_GetObjectItemCaseSensitive(h, b, h[ca[i]].string)
                      IN o # NULL /\ cJSON_Compare(h, ca[i], o)
                 /\ \A i \in 1..Len(cb) :
                      LET o == cJSON_GetObjectItemCaseSensitive(h, a, h[cb[i]].string)
                      IN o # NULL /\ cJSON_Compare(h, cb[i], o)
            [] OTHER -> FALSE

RECURSIVE TreeOf(_, _)
\* the value of the subtree at n, without its addresses
TreeOf(h, n) ==
  IF n = NULL THEN <<>>
  ELSE <<[type |-> h[n].type, string |-> h[n].string, valuestring |-> h[n].valuestring,
          valuedouble |-> h[n].valuedouble,
          child |-> [i \in 1..Len(h[n].child) |-> TreeOf(h, h[n].child[i])]]>>

(* ------------------------------ state ---------------------------------- *)

VARIABLES
  heap,   \* the cJSON cells
  docs,   \* the JsonObject slots
  last    \* the last call made and what it returned

vars == <<heap, docs, last>>

\* a slot holding no constructed JsonObject
NoDoc == [live |-> FALSE, m_value |-> NULL, m_wasParseSuccessful |-> TRUE, m_errorMessage |-> <<>>]

Doc(v, ok, msg) == [live |-> TRUE, m_value |-> v, m_wasParseSuccessful |-> ok, m_errorMessage |-> msg]

Live(d) == docs[d].live

\* the record of a call: the operation, its target slot, its JsonObject
\* arguments, its key and text arguments (text also holds a returned text),
\* the node a view call was made on (for a destructor and AsNull: the root
\* held before), whether it aborted, and the boolean, string, number and
\* views it returned
Call(op, d, srcs, key) ==
  [op |-> op, d |-> d, srcs |-> srcs, key |-> key, text |-> <<>>, node |-> NULL,
   abort |-> FALSE, b |-> FALSE, s |-> "", n |-> 0, views |-> <<>>]

Room(n) == Cardinality(FreeIds(heap)) >= n

Size(n) == Cardinality(Reach(heap, n))

\* the roots the live JsonObjects hold
Roots == {docs[d].m_value : d \in {x \in Docs : Live(x)}} \ {NULL}

\* the cells a view can alias: those of the live trees
ViewNodes == UNION {Reach(heap, r) : r \in Roots}

\* the cells that are allocated and belong to no live tree
Leaked == Allocated(heap) \ ViewNodes

\* the sequences of distinct live JsonObjects other than d (a Vector<JsonObject>)
Vectors(d) ==
  {v \in UNION {[1..n -> Docs \ {d}] : n \in 0..(NDocs - 1)} :
     /\ \A i \in DOMAIN v : Live(v[i])
     /\ \A i, j \in DOMAIN v : i # j => v[i] # v[j]}

StrVectors == {<<>>, <<"a">>, <<"a", "b">>}

ErrorPrefix == Tok("Failed to parse JSON at: ")

Init ==
  /\ heap = EmptyHeap
  /\ docs = [d \in Docs |-> NoDoc]
  /\ last = Call("none", 0, <<>>, "")

(* ------------------------------ construction, destruction -------------- *)

\* JsonObject::JsonObject(Allocator *)
JsonObject_Default(d) ==
  /\ ~Live(d)
  /\ docs' = [docs EXCEPT ![d] = Doc(NULL, TRUE, <<>>)]
  /\ last' = Call("JsonObject()", d, <<>>, "")
  /\ UNCHANGED heap

\* construction from text that leaves m_wasParseSuccessful as initialised
JsonObject_FromString_FlagKept(d, value) ==
  /\ ~Live(d)
  /\ Room(ParseCells(value))
  /\ LET r == cJSON_ParseWithOpts(heap, value) IN
       /\ heap' = r.h
       /\ docs' = [docs EXCEPT ![d] =
                     IF r.id = NULL
                     THEN Doc(r.id, TRUE, <<ErrorPrefix>> \o SubSeq(value, r.pos, Len(value)))
                     ELSE Doc(r.id, TRUE, <<>>)]
  /\ last' = [Call("JsonObject(String)", d, <<>>, "") EXCEPT !.text = value]

\* JsonObject::JsonObject(const String &, Allocator *)
JsonObject_FromString(d, value) ==
  /\ ~Live(d)
  /\ Room(ParseCells(value))
  /\ LET r == cJSON_ParseWithOpts(heap, value) IN
       /\ heap' = r.h
       /\ docs' = [docs EXCEPT ![d] =
                     IF r.id = NULL
                     THEN Doc(r.id, FALSE, <<ErrorPrefix>> \o SubSeq(value, r.pos, Len(value)))
                     ELSE Doc(r.id, TRUE, <<>>)]
  /\ last' = [Call("JsonObject(String)", d, <<>>, "") EXCEPT !.text = value]

\* JsonObject::JsonObject(cJSON *, Allocator *)
JsonObject_FromNode(op, d, n) ==
  /\ ~Live(d)
  /\ Room(Size(n))
  /\ LET r == cJSON_Duplicate(heap, n) IN
       /\ heap' = r.h
       /\ docs' = [docs EXCEPT ![d] = Doc(r.id, TRUE, <<>>)]
  /\ last' = [Call(op, d, <<>>, "") EXCEPT !.node = n]

\* JsonObject::JsonObject(const JsonObject &)
JsonObject_Copy(d, value) ==
  /\ ~Live(d) /\ Live(value)
  /\ Room(Size(docs[value].m_value))
  /\ LET r == cJSON_Duplicate(heap, docs[value].m_value) IN
       /\ heap' = r.h
       /\ docs' = [docs EXCEPT ![d] =
                     Doc(r.id, docs[value].m_wasParseSuccessful, docs[value].m_errorMessage)]
  /\ last' = Call("JsonObject(const&)", d, <<value>>, "")

\* the move constructor without `value.m_value = nullptr`
JsonObject_Move_KeepsSource(d, value) ==
  /\ ~Live(d) /\ Live(value)
  /\ docs' = [docs EXCEPT
               ![d] = Doc(docs[value].m_value, docs[value].m_wasParseSuccessful,
                          docs[value].m_errorMessage)]
  /\ last' = Call("JsonObject(&&)", d, <<value>>, "")
  /\ UNCHANGED heap

\* JsonObject::JsonObject(JsonObject &&); the moved-from message is left in
\* a valid but unspecified state: empty or unchanged
JsonObject_Move(d, value) ==
  /\ ~Live(d) /\ Live(value)
  /\ \E m \in {<<>>, docs[value].m_errorMessage} :
       docs' = [docs EXCEPT
                  ![d] = Doc(docs[value].m_value, docs[value].m_wasParseSuccessful,
                             docs[value].m_errorMessage),
                  ![value].m_value = NULL,
                  ![value].m_errorMessage = m]
  /\ last' = Call("JsonObject(&&)", d, <<value>>, "")
  /\ UNCHANGED heap

\* JsonObject::Destroy
Destroy(h, d) == cJSON_Delete(h, docs[d].m_value)

\* JsonObject::~JsonObject
Destructor(d) ==
  /\ Live(d)
  /\ heap' = Destroy(heap, d)
  /\ docs' = [docs EXCEPT ![d] = NoDoc]
  /\ last' = [Call("~JsonObject", d, <<>>, "") EXCEPT !.node = docs[d].m_value]

(* ------------------------------ assignment ----------------------------- *)

\* JsonObject::operator=(const JsonObject &), also under AsObject(const &)
CopyAssignAs(op, d, other) ==
  /\ Live(d) /\ Live(other)
  /\ IF d = other
     THEN UNCHANGED <<heap, docs>>
     ELSE /\ Room(Size(docs[other].m_value) - Size(docs[d].m_value))
          /\ LET r == cJSON_Duplicate(Destroy(heap, d), docs[other].m_value) IN
               /\ heap' = r.h
               /\ docs' = [docs EXCEPT ![d] =
                             Doc(r.id, docs[other].m_wasParseSuccessful,
                                 docs[other].m_errorMessage)]
  /\ last' = Call(op, d, <<other>>, "")

\* move assignment written as destroy-then-adopt
MoveAssignAs_DestroyThenAdopt(op, d, other) ==
  /\ Live(d) /\ Live(other)
  /\ IF d = other
     THEN UNCHANGED <<heap, docs>>
     ELSE /\ heap' = Destroy(heap, d)
          /\ docs' = [docs EXCEPT
                        ![d] = Doc(docs[other].m_value, docs[other].m_wasParseSuccessful,
                                   docs[other].m_errorMessage),
                        ![other].m_value = NULL,
                        ![other].m_errorMessage = <<>>]
  /\ last' = Call(op, d, <<other>>, "")

\* JsonObject::operator=(JsonObject &&), also under AsObject(JsonObject &&)
MoveAssignAs(op, d, other) ==
  /\ Live(d) /\ Live(other)
  /\ IF d = other
     THEN UNCHANGED docs
     ELSE docs' = [docs EXCEPT
                     ![d] = Doc(docs[other].m_value, docs[other].m_wasParseSuccessful,
                                docs[other].m_errorMessage),
                     ![other].m_value = docs[d].m_value,
                     ![other].m_errorMessage = docs[d].m_errorMessage]
  /\ last' = Call(op, d, <<other>>, "")
  /\ UNCHANGED heap

CopyAssign(d, other) == CopyAssignAs("operator=(const&)", d, other)

MoveAssign(d, other) == MoveAssignAs("operator=(&&)", d, other)

(* ------------------------------ With* mutators ------------------------- *)

\* static_cast<double> of an int or int64_t value; exact for the values of
\* the model, which lie in the exactly representable range
static_cast_double(v) == v

\* an existing child deleted and the new one appended at the end
AddOrReplace_DeleteThenAppend(h, root, key, value) ==
  LET p == FindItem(h, h[root].child, key, 1)
      cs == h[root].child
      without == [h EXCEPT ![root].child = SubSeq(cs, 1, p - 1) \o SubSeq(cs, p + 1, Len(cs))]
  IN IF p # 0
     THEN cJSON_AddItemToObject(cJSON_Delete(without, cs[p]), root, key, value)
     ELSE cJSON_AddItemToObject(h, root, key, value)

\* AddOrReplace(root, key, value)
AddOrReplace(h, root, key, value) ==
  IF cJSON_GetObjectItemCaseSensitive(h, root, key) # NULL
  THEN cJSON_ReplaceItemInObjectCaseSensitive(h, root, key, value)
  ELSE cJSON_AddItemToObject(h, root, key, value)

\* if (m_value == nullptr) m_value = cJSON_CreateObject();
LazyRoot(h, v) == IF v = NULL THEN cJSON_CreateObject(h) ELSE [h |-> h, id |-> v]

\* the cells the lazily created root takes
Lazy(d) == IF docs[d].m_value = NULL THEN 1 ELSE 0

\* JsonObject::WithString
WithString(d, key, value) ==
  /\ Live(d) /\ Room(Lazy(d) + 1)
  /\ LET r == LazyRoot(heap, docs[d].m_value)
         val == cJSON_CreateString(r.h, value)
     IN /\ heap' = AddOrReplace(val.h, r.id, key, val.id)
        /\ docs' = [docs EXCEPT ![d].m_value = r.id]
  /\ last' = [Call("WithString", d, <<>>, key) EXCEPT !.s = value]

\* JsonObject::WithBool
WithBool(d, key, value) ==
  /\ Live(d) /\ Room(Lazy(d) + 1)
  /\ LET r == LazyRoot(heap, docs[d].m_value)
         val == cJSON_CreateBool(r.h, value)
     IN /\ heap' = AddOrReplace(val.h, r.id, key, val.id)
        /\ docs' = [docs EXCEPT ![d].m_value = r.id]
  /\ last' = Call("WithBool", d, <<>>, key)

\* JsonObject::WithDouble
WithDouble(d, key, value) ==
  /\ Live(d) /\ Room(Lazy(d) + 1)
  /\ LET r == LazyRoot(heap, docs[d].m_value)
         val == cJSON_CreateNumber(r.h, value)
     IN /\ heap' = AddOrReplace(val.h, r.id, key, val.id)
        /\ docs' = [docs EXCEPT ![d].m_value = r.id]
  /\ last' = Call("WithDouble", d, <<>>, key)

\* JsonObject::WithInteger
WithInteger(d, key, value) == WithDouble(d, key, static_cast_double(value))

\* JsonObject::WithInt64
WithInt64(d, key, value) == WithDouble(d, key, static_cast_double(value))

RECURSIVE AddStrings(_, _, _, _)
\* for (const auto &i : array) cJSON_AddItemToArray(arrayValue, cJSON_CreateString(i))
AddStrings(h, arrayValue, array, i) ==
  IF i > Len(array) THEN h
  ELSE LET e == cJSON_CreateString(h, array[i])
       IN AddStrings(cJSON_AddItemToArray(e.h, arrayValue, e.id), arrayValue, array, i + 1)

RECURSIVE AddCopies(_, _, _, _)
\* for (const auto &i : array) cJSON_AddItemToArray(arrayValue, cJSON_Duplicate(i.m_value, 1))
AddCopies(h, arrayValue, array, i) ==
  IF i > Len(array) THEN h
  ELSE LET e == cJSON_Duplicate(h, docs[array[i]].m_value)
       IN AddCopies(cJSON_AddItemToArray(e.h, arrayValue, e.id), arrayValue, array, i + 1)

RECURSIVE AddMoved(_, _, _, _)
\* for (auto &i : array) cJSON_AddItemToArray(arrayValue, i.m_value)
AddMoved(h, arrayValue, array, i) ==
  IF i > Len(array) THEN h
  ELSE AddMoved(cJSON_AddItemToArray(h, arrayValue, docs[array[i]].m_value),
                arrayValue, array, i + 1)

\* the elements of a vector, as a set
Elems(array) == {array[i] : i \in DOMAIN array}

RECURSIVE SizeAll(_, _)
\* the cells of the trees of a vector's elements
SizeAll(array, i) ==
  IF i > Len(array) THEN 0 ELSE Size(docs[array[i]].m_value) + SizeAll(array, i + 1)

\* i.m_value = nullptr for every element of the vector
Emptied(ds, array) ==
  [x \in Docs |-> IF x \in Elems(array) THEN [ds[x] EXCEPT !.m_value = NULL] ELSE ds[x]]

\* JsonObject::WithArray(const char *, const Vector<String> &)
WithArrayStrings(d, key, array) ==
  /\ Live(d) /\ Room(Lazy(d) + 1 + Len(array))
  /\ LET r == LazyRoot(heap, docs[d].m_value)
         arrayValue == cJSON_CreateArray(r.h)
     IN /\ heap' = AddOrReplace(AddStrings(arrayValue.h, arrayValue.id, array, 1),
                                r.id, key, arrayValue.id)
        /\ docs' = [docs EXCEPT ![d].m_value = r.id]
  /\ last' = Call("WithArray(Vector<String>)", d, <<>>, key)

\* the copy form adding the elements' own roots instead of duplicates
WithArrayCopy_Shallow(d, key, array) ==
  /\ Live(d) /\ Room(Lazy(d) + 1 + SizeAll(array, 1))
  /\ LET r == LazyRoot(heap, docs[d].m_value)
         arrayValue == cJSON_CreateArray(r.h)
     IN /\ heap' = AddOrReplace(AddMoved(arrayValue.h, arrayValue.id, array, 1),
                                r.id, key, arrayValue.id)
        /\ docs' = [docs EXCEPT ![d].m_value = r.id]
  /\ last' = Call("WithArray(const Vector&)", d, array, key)

\* JsonObject::WithArray(const String &, const Vector<JsonObject> &)
WithArrayCopy(d, key, array) ==
  /\ Live(d) /\ Room(Lazy(d) + 1 + SizeAll(array, 1))
  /\ LET r == LazyRoot(heap, docs[d].m_value)
         arrayValue == cJSON_CreateArray(r.h)
     IN /\ heap' = AddOrReplace(AddCopies(arrayValue.h, arrayValue.id, array, 1),
                                r.id, key, arrayValue.id)
        /\ docs' = [docs EXCEPT ![d].m_value = r.id]
  /\ last' = Call("WithArray(const Vector&)", d, array, key)

\* JsonObject::WithArray(const String &, Vector<JsonObject> &&)
WithArrayMove(d, key, array) ==
  /\ Live(d) /\ Room(Lazy(d) + 1)
  /\ LET r == LazyRoot(heap, docs[d].m_value)
         arrayValue == cJSON_CreateArray(r.h)
     IN /\ heap' = AddOrReplace(AddMoved(arrayValue.h, arrayValue.id, array, 1),
                                r.id, key, arrayValue.id)
        /\ docs' = [Emptied(docs, array) EXCEPT ![d].m_value = r.id]
  /\ last' = Call("WithArray(Vector&&)", d, array, key)

\* the copy form without the empty object that stands in for a null root
WithObjectCopy_NoEmptyObject(d, key, value) ==
  /\ Live(d) /\ Live(value) /\ d # value
  /\ Room(Lazy(d) + (IF docs[value].m_value = NULL THEN 1 ELSE Size(docs[value].m_value)))
  /\ LET r == LazyRoot(heap, docs[d].m_value)
         copy == cJSON_Duplicate(r.h, docs[value].m_value)
     IN /\ heap' = AddOrReplace(copy.h, r.id, key, copy.id)
        /\ docs' = [docs EXCEPT ![d].m_value = r.id]
  /\ last' = Call("WithObject(const&)", d, <<value>>, key)

\* JsonObject::WithObject(const char *, const JsonObject &)
WithObjectCopy(d, key, value) ==
  /\ Live(d) /\ Live(value) /\ d # value
  /\ Room(Lazy(d) + (IF docs[value].m_value = NULL THEN 1 ELSE Size(docs[value].m_value)))
  /\ LET r == LazyRoot(heap, docs[d].m_value)
         copy == IF docs[value].m_value = NULL
                 THEN cJSON_CreateObject(r.h)
                 ELSE cJSON_Duplicate(r.h, docs[value].m_value)
     IN /\ heap' = AddOrReplace(copy.h, r.id, key, copy.id)
        /\ docs' = [docs EXCEPT ![d].m_value = r.id]
  /\ last' = Call("WithObject(const&)", d, <<value>>, key)

\* JsonObject::WithObject(const char *, JsonObject &&)
WithObjectMove(d, key, value) ==
  /\ Live(d) /\ Live(value) /\ d # value
  /\ Room(Lazy(d) + (IF docs[value].m_value = NULL THEN 1 ELSE 0))
  /\ LET r == LazyRoot(heap, docs[d].m_value)
         child == IF docs[value].m_value = NULL
                  THEN cJSON_CreateObject(r.h)
                  ELSE [h |-> r.h, id |-> docs[value].m_value]
     IN /\ heap' = AddOrReplace(child.h, r.id, key, child.id)
        /\ docs' = [docs EXCEPT ![d].m_value = r.id, ![value].m_value = NULL]
  /\ last' = Call("WithObject(&&)", d, <<value>>, key)

(* ------------------------------ As* mutators --------------------------- *)

\* JsonObject::AsString
AsString(d, value) ==
  /\ Live(d) /\ Room(1 - Size(docs[d].m_value))
  /\ LET r == cJSON_CreateString(Destroy(heap, d), value) IN
       /\ heap' = r.h
       /\ docs' = [docs EXCEPT ![d].m_value = r.id]
  /\ last' = Call("AsString", d, <<>>, "")

\* JsonObject::AsBool
AsBool(d, value) ==
  /\ Live(d) /\ Room(1 - Size(docs[d].m_value))
  /\ LET r == cJSON_CreateBool(Destroy(heap, d), value) IN
       /\ heap' = r.h
       /\ docs' = [docs EXCEPT ![d].m_value = r.id]
  /\ last' = Call("AsBool", d, <<>>, "")

\* JsonObject::AsInteger
AsInteger(d, value) ==
  /\ Live(d) /\ Room(1 - Size(docs[d].m_value))
  /\ LET r == cJSON_CreateNumber(Destroy(heap, d), static_cast_double(value)) IN
       /\ heap' = r.h
       /\ docs' = [docs EXCEPT ![d].m_value = r.id]
  /\ last' = Call("AsInteger", d, <<>>, "")

\* JsonObject::AsDouble
AsDouble(d, value) ==
  /\ Live(d) /\ Room(1 - Size(docs[d].m_value))
  /\ LET r == cJSON_CreateNumber(Destroy(heap, d), value) IN
       /\ heap' = r.h
       /\ docs' = [docs EXCEPT ![d].m_value = r.id]
  /\ last' = Call("AsDouble", d, <<>>, "")

\* JsonObject::AsInt64
AsInt64(d, value) == AsDouble(d, static_cast_double(value))

\* JsonObject::AsNull
AsNull(d) ==
  /\ Live(d) /\ Room(1)
  /\ Cardinality(Leaked) + Size(docs[d].m_value) <= MaxLeaked
  /\ LET r == cJSON_CreateNull(heap) IN
       /\ heap' = r.h
       /\ docs' = [docs EXCEPT ![d].m_value = r.id]
  /\ last' = [Call("AsNull", d, <<>>, "") EXCEPT !.node = docs[d].m_value]

\* JsonObject::AsArray(const Vector<JsonObject> &)
AsArrayCopy(d, array) ==
  /\ Live(d) /\ Room(1 + SizeAll(array, 1))
  /\ LET arrayValue == cJSON_CreateArray(heap) IN
       /\ heap' = Destroy(AddCopies(arrayValue.h, arrayValue.id, array, 1), d)
       /\ docs' = [docs EXCEPT ![d].m_value = arrayValue.id]
  /\ last' = Call("AsArray(const Vector&)", d, array, "")

\* JsonObject::AsArray(Vector<JsonObject> &&)
AsArrayMove(d, array) ==
  /\ Live(d) /\ Room(1)
  /\ LET arrayValue == cJSON_CreateArray(heap) IN
       /\ heap' = Destroy(AddMoved(arrayValue.h, arrayValue.id, array, 1), d)
       /\ docs' = [Emptied(docs, array) EXCEPT ![d].m_value = arrayValue.id]
  /\ last' = Call("AsArray(Vector&&)", d, array, "")

\* JsonObject::AsObject(const JsonObject &)
AsObjectCopy(d, value) == CopyAssignAs("AsObject(const&)", d, value)

\* JsonObject::AsObject(JsonObject &&)
AsObjectMove(d, value) == MoveAssignAs("AsObject(&&)", d, value)

(* ------------------------------ JsonView ------------------------------ *)

\* AWS_ASSERT(cond): the call goes on iff cond holds, and is fatal otherwise
AWS_ASSERT(cond) == cond

\* the record of a call on a view of node n
ViewCall(op, n, key) == [Call(op, 0, <<>>, key) EXCEPT !.node = n]

Aborted(c) == [c EXCEPT !.abort = TRUE]

\* JsonView::AsString
JsonView_AsString(n) ==
  /\ last' = [ViewCall("View.AsString", n, "") EXCEPT
                !.s = IF cJSON_IsString(heap, n) THEN heap[n].valuestring ELSE ""]
  /\ UNCHANGED <<heap, docs>>

\* JsonView::AsBool
JsonView_AsBool(n) ==
  /\ last' = IF AWS_ASSERT(cJSON_IsBool(heap, n))
             THEN [ViewCall("View.AsBool", n, "") EXCEPT !.b = cJSON_IsTrue(heap, n)]
             ELSE Aborted(ViewCall("View.AsBool", n, ""))
  /\ UNCHANGED <<heap, docs>>

\* JsonView::AsInteger (valueint holds the number for the values of the model)
JsonView_AsInteger(n) ==
  /\ last' = IF AWS_ASSERT(cJSON_IsNumber(heap, n))
             THEN [ViewCall("View.AsInteger", n, "") EXCEPT !.n = heap[n].valuedouble]
             ELSE Aborted(ViewCall("View.AsInteger", n, ""))
  /\ UNCHANGED <<heap, docs>>

\* JsonView::AsInt64
JsonView_AsInt64(n) ==
  /\ last' = IF AWS_ASSERT(cJSON_IsNumber(heap, n))
             THEN [ViewCall("View.AsInt64", n, "") EXCEPT !.n = heap[n].valuedouble]
             ELSE Aborted(ViewCall("View.AsInt64", n, ""))
  /\ UNCHANGED <<heap, docs>>

\* JsonView::AsDouble
JsonView_AsDouble(n) ==
  /\ last' = IF AWS_ASSERT(cJSON_IsNumber(heap, n))
             THEN [ViewCall("View.AsDouble", n, "") EXCEPT !.n = heap[n].valuedouble]
             ELSE Aborted(ViewCall("View.AsDouble", n, ""))
  /\ UNCHANGED <<heap, docs>>

\* JsonView::AsObject
JsonView_AsObject(n) ==
  /\ last' = IF AWS_ASSERT(cJSON_IsObject(heap, n))
             THEN [ViewCall("View.AsObject", n, "") EXCEPT !.views = <<n>>]
             ELSE Aborted(ViewCall("View.AsObject", n, ""))
  /\ UNCHANGED <<heap, docs>>

\* JsonView::AsArray
JsonView_AsArray(n) ==
  /\ last' = IF AWS_ASSERT(cJSON_IsArray(heap, n))
             THEN [ViewCall("View.AsArray", n, "") EXCEPT !.views = heap[n].child]
             ELSE Aborted(ViewCall("View.AsArray", n, ""))
  /\ UNCHANGED <<heap, docs>>

\* JsonView::GetArray
JsonView_GetArray(n, key) ==
  /\ last' = LET array == cJSON_GetObjectItemCaseSensitive(heap, n, key) IN
               IF AWS_ASSERT(n # NULL) /\ AWS_ASSERT(cJSON_IsArray(heap, array))
               THEN [ViewCall("View.GetArray", n, key) EXCEPT !.views = heap[array].child]
               ELSE Aborted(ViewCall("View.GetArray", n, key))
  /\ UNCHANGED <<heap, docs>>

\* JsonView::ValueExists
ValueExists(h, n, key) ==
  IF ~cJSON_IsObject(h, n) THEN FALSE
  ELSE LET item == cJSON_GetObjectItemCaseSensitive(h, n, key)
       IN ~(item = NULL \/ cJSON_IsNull(h, item))

\* the key looked up without regard to case
KeyExists_IgnoreCase(h, n, key) ==
  IF ~cJSON_IsObject(h, n) THEN FALSE
  ELSE \E i \in 1..Len(h[n].child) : Lower(h[h[n].child[i]].string) = Lower(key)

\* JsonView::KeyExists
KeyExists(h, n, key) ==
  IF ~cJSON_IsObject(h, n) THEN FALSE
  ELSE cJSON_GetObjectItemCaseSensitive(h, n, key) # NULL

JsonView_ValueExists(n, key) ==
  /\ last' = [ViewCall("View.ValueExists", n, key) EXCEPT !.b = ValueExists(heap, n, key)]
  /\ UNCHANGED <<heap, docs>>

JsonView_KeyExists(n, key) ==
  /\ last' = [ViewCall("View.KeyExists", n, key) EXCEPT !.b = KeyExists(heap, n, key)]
  /\ UNCHANGED <<heap, docs>>

\* JsonView::WriteCompact
WriteCompact(h, n, treatAsObject) ==
  IF n = NULL
  THEN (IF treatAsObject THEN <<Tok("{"), Tok("}")>> ELSE <<>>)
  ELSE cJSON_PrintUnformatted(h, n)

JsonView_WriteCompact(n, treatAsObject) ==
  /\ last' = [ViewCall("View.WriteCompact", n, "") EXCEPT
                !.text = WriteCompact(heap, n, treatAsObject), !.b = treatAsObject]
  /\ UNCHANGED <<heap, docs>>

\* JsonView::Materialize, into slot d
JsonView_Materialize(d, n) == JsonObject_FromNode("View.Materialize", d, n)

\* JsonView::GetJsonObjectCopy, into slot d
JsonView_GetJsonObjectCopy(d, n, key) ==
  IF AWS_ASSERT(n # NULL)
  THEN /\ JsonObject_FromNode("View.GetJsonObjectCopy", d,
                              cJSON_GetObjectItemCaseSensitive(heap, n, key))
  ELSE /\ ~Live(d)
       /\ last' = Aborted(ViewCall("View.GetJsonObjectCopy", n, key))
       /\ UNCHANGED <<heap, docs>>

\* two JsonObjects taken for equal when they hold the same address
Equal_SameAddress(h, a, b) == docs[a].m_value = docs[b].m_value

\* JsonObject::operator==
Equal(h, a, b) == cJSON_Compare(h, docs[a].m_value, docs[b].m_value)

\* JsonObject::View: the view aliases the root
View(d) == docs[d].m_value

\* JsonObject::View followed by JsonView::Materialize, into slot d
MaterializeView(d, o) == Live(o) /\ JsonView_Materialize(d, View(o))

\* JsonObject::View followed by JsonView::WriteCompact
WriteCompactView(o, treatAsObject) == Live(o) /\ JsonView_WriteCompact(View(o), treatAsObject)

\* JsonObject(o.View().WriteCompact(treatAsObject)), into slot d
Reparse(d, o, treatAsObject) ==
  Live(o) /\ JsonObject_FromString(d, WriteCompact(heap, View(o), treatAsObject))

(* ------------------------------ specifications ------------------------ *)

\* what a view can be bound to
Views == ViewNodes \cup {NULL}

T_EmptyArray == <<Tok("["), Tok("]")>>

T_NullMember == <<Tok("{"), StrTok("key"), Tok(":"), Tok("null"), Tok("}")>>

T_Truncated == <<Tok("{"), StrTok("key")>>

T_Empty == <<>>

\* Ownership: every way to construct, copy, move, assign and destroy, and the
\* mutators that take JsonObjects by copy and by move.
Next ==
  \/ \E d \in Docs : JsonObject_Default(d)
  \/ \E d \in Docs : JsonObject_FromString(d, T_EmptyArray)
  \/ \E d, o \in Docs : MaterializeView(d, o)
  \/ \E d, o \in Docs : JsonObject_Copy(d, o)
  \/ \E d, o \in Docs : JsonObject_Move(d, o)
  \/ \E d \in Docs : Destructor(d)
  \/ \E d, o \in Docs : CopyAssign(d, o)
  \/ \E d, o \in Docs : MoveAssign(d, o)
  \/ \E d \in Docs : WithString(d, "key", "a")
  \/ \E d \in Docs : \E a \in Vectors(d) : WithArrayCopy(d, "key", a)
  \/ \E d \in Docs : \E a \in Vectors(d) : WithArrayMove(d, "key", a)
  \/ \E d, o \in Docs : WithObjectCopy(d, "key", o)
  \/ \E d, o \in Docs : WithObjectMove(d, "key", o)
  \/ \E d \in Docs : AsString(d, "a")
  \/ \E d \in Docs : \E a \in Vectors(d) : AsArrayCopy(d, a)
  \/ \E d \in Docs : \E a \in Vectors(d) : AsArrayMove(d, a)
  \/ \E d, o \in Docs : AsObjectCopy(d, o)
  \/ \E d, o \in Docs : AsObjectMove(d, o)

Spec == Init /\ [][Next]_vars

\* Parsing and the parse flag: construction from well-formed and malformed
\* text, and what copies, moves, assignments and mutators do to the flag.
NextParse ==
  \/ \E d \in Docs : JsonObject_Default(d)
  \/ \E d \in Docs, t \in {T_Empty, T_Truncated, T_NullMember} : JsonObject_FromString(d, t)
  \/ \E d, o \in Docs : JsonObject_Copy(d, o)
  \/ \E d, o \in Docs : JsonObject_Move(d, o)
  \/ \E d \in Docs : Destructor(d)
  \/ \E d, o \in Docs : CopyAssign(d, o)
  \/ \E d, o \in Docs : MoveAssign(d, o)
  \/ \E d, o \in Docs : AsObjectCopy(d, o)
  \/ \E d, o \in Docs : AsObjectMove(d, o)
  \/ \E d \in Docs : WithDouble(d, "key", 3)
  \/ \E d \in Docs : AsString(d, "a")

SpecParse == Init /\ [][NextParse]_vars

\* Keyed mutators and key lookup: one JsonObject built by With* calls (a
\* second one serves as the argument of WithObject and WithArray), and the
\* existence checks of the views of its nodes.
NextKeyed ==
  \/ \E d \in Docs : JsonObject_Default(d)
  \/ JsonObject_FromString(1, T_NullMember)
  \/ Destructor(1)
  \/ \E k \in Keys, v \in Strs : WithString(1, k, v)
  \/ \E k \in Keys : WithBool(1, k, TRUE)
  \/ \E k \in Keys, v \in Nums : WithDouble(1, k, v)
  \/ \E k \in Keys, v \in Nums : WithInteger(1, k, v)
  \/ \E k \in Keys, v \in Nums : WithInt64(1, k, v)
  \/ \E k \in Keys, a \in StrVectors : WithArrayStrings(1, k, a)
  \/ \E k \in Keys : \E a \in Vectors(1) : WithArrayCopy(1, k, a)
  \/ \E k \in Keys : \E a \in Vectors(1) : WithArrayMove(1, k, a)
  \/ \E k \in Keys : WithObjectCopy(1, k, 2)
  \/ \E k \in Keys : WithObjectMove(1, k, 2)
  \/ \E n \in Views, k \in Keys : JsonView_KeyExists(n, k)
  \/ \E n \in Views, k \in Keys : JsonView_ValueExists(n, k)

SpecKeyed == Init /\ [][NextKeyed]_vars

\* The As* mutators of one JsonObject and the As accessors of its views.
NextAs ==
  \/ JsonObject_Default(1)
  \/ Destructor(1)
  \/ \E k \in Keys : WithString(1, k, "a")
  \/ \E v \in Strs : AsString(1, v)
  \/ \E v \in BOOLEAN : AsBool(1, v)
  \/ \E v \in Nums : AsInteger(1, v)
  \/ \E v \in Nums : AsInt64(1, v)
  \/ \E v \in Nums : AsDouble(1, v)
  \/ AsNull(1)
  \/ AsArrayCopy(1, <<>>)
  \/ \E n \in Views : JsonView_AsString(n)
  \/ \E n \in Views : JsonView_AsBool(n)
  \/ \E n \in Views : JsonView_AsInteger(n)
  \/ \E n \in Views : JsonView_AsInt64(n)
  \/ \E n \in Views : JsonView_AsDouble(n)
  \/ \E n \in Views : JsonView_AsObject(n)
  \/ \E n \in Views : JsonView_AsArray(n)

SpecAs == Init /\ [][NextAs]_vars

\* Printing and parsing back: JsonObject 1 is built by With* and As* calls,
\* and JsonObject 2 is constructed from the compact text of a view of it.
NextRound ==
  \/ JsonObject_Default(1)
  \/ Destructor(2)
  \/ \E k \in Keys : WithString(1, k, "a")
  \/ WithBool(1, "key", FALSE)
  \/ WithInteger(1, "key", 3)
  \/ WithArrayStrings(1, "key", <<"b">>)
  \/ AsString(1, "a")
  \/ AsDouble(1, 3)
  \/ AsNull(1)
  \/ AsArrayCopy(1, <<>>)
  \/ \E b \in BOOLEAN : WriteCompactView(1, b)
  \/ \E b \in BOOLEAN : Reparse(2, 1, b)

SpecRound == Init /\ [][NextRound]_vars

\* Arrays of JsonObjects: a vector holding JsonObject 2, with a null root or
\* a tree, is stored in JsonObject 1 under a key or as the root, by copy and
\* by move, and read back through the views.
NextArray ==
  \/ \E d \in Docs : JsonObject_Default(d)
  \/ \E d \in Docs : Destructor(d)
  \/ \E v \in Strs : AsString(2, v)
  \/ \E a \in Vectors(1) : WithArrayCopy(1, "key", a)
  \/ \E a \in Vectors(1) : WithArrayMove(1, "key", a)
  \/ \E a \in Vectors(1) : AsArrayCopy(1, a)
  \/ \E a \in Vectors(1) : AsArrayMove(1, a)
  \/ \E n \in Views : JsonView_AsArray(n)
  \/ \E n \in Views, k \in Keys : JsonView_GetArray(n, k)

SpecArray == Init /\ [][NextArray]_vars

(* ------------------------------ C1 ------------------------------------- *)

\* the number of places that hold the address of cell n: the live roots and
\* the child lists of the allocated cells
Owners(n) ==
  Cardinality({d \in Docs : Live(d) /\ docs[d].m_value = n})
  + Cardinality({c \in (Ids \X Ids) : /\ c[1] \in Allocated(heap)
                                      /\ c[2] \in DOMAIN heap[c[1]].child
                                      /\ heap[c[1]].child[c[2]] = n})

NoDoubleFree == \A i \in Ids : heap[i].type # "DoubleFreed"

NoDangling == ViewNodes \subseteq Allocated(heap)

SoleOwner == \A n \in ViewNodes : Owners(n) = 1

\* C1: whatever the constructions, assignments, mutations and destructions,
\* no cell is reachable from two live JsonObjects (every cell of a live tree
\* is allocated and held in exactly one place), no cell is freed twice, and
\* destroying a JsonObject whose root is null frees nothing.
C1_SoleOwnership ==
  /\ [](NoDoubleFree /\ NoDangling /\ SoleOwner)
  /\ [][(last'.op = "~JsonObject" /\ last'.node = NULL) => heap' = heap]_vars

\* a moved-from JsonObject was destroyed while the JsonObject that adopted
\* its tree, inside an array under a key, lives on
C1_Witness ==
  /\ last.op = "~JsonObject" /\ last.node = NULL
  /\ \E d \in Docs : Live(d) /\ Size(docs[d].m_value) >= 3

(* ------------------------------ C4 ------------------------------------- *)

\* the tree a JsonObject holds, as a value
DocTree(d) == TreeOf(heap, docs[d].m_value)

\* a JsonObject and its tree are as they were
Untouched(x) == docs'[x] = docs[x] /\ DocTree(x)' = DocTree(x)

\* the operations that take their JsonObject arguments by move
MoveOps ==
  {"JsonObject(&&)", "operator=(&&)", "AsObject(&&)", "WithArray(Vector&&)",
   "WithObject(&&)", "AsArray(Vector&&)"}

\* C4: the move form of WithArray leaves every element of the vector with a
\* null root; the copy form leaves every element as it was; and a call changes
\* no JsonObject but its target and the arguments it takes by move, so that
\* mutating an element later leaves the stored array alone, and mutating the
\* target leaves the elements alone.
C4_MoveVsCopy ==
  [][/\ last'.op = "WithArray(Vector&&)" =>
          \A x \in Elems(last'.srcs) : docs'[x].m_value = NULL
     /\ last'.op = "WithArray(const Vector&)" =>
          \A x \in Elems(last'.srcs) : Untouched(x)
     /\ \A x \in Docs :
          (/\ Live(x)
           /\ x # last'.d
           /\ ~(last'.op \in MoveOps /\ x \in Elems(last'.srcs))) => Untouched(x)
    ]_vars

\* the copy form has stored the duplicate of a one-cell element, which still
\* holds its own tree
C4_Witness ==
  /\ last.op = "WithArray(const Vector&)"
  /\ last.srcs # <<>>
  /\ docs[last.srcs[1]].m_value # NULL
  /\ LET a == cJSON_GetObjectItemCaseSensitive(heap, docs[last.d].m_value, last.key)
     IN /\ cJSON_IsArray(heap, a)
        /\ Len(heap[a].child) = 1
        /\ heap[a].child[1] # docs[last.srcs[1]].m_value

(* ------------------------------ C10 ------------------------------------ *)

\* the children of r that are named key
Named(h, r, key) ==
  {h[r].child[i] : i \in {j \in 1..Len(h[r].child) : h[h[r].child[j]].string = key}}

\* the value of the subtree at n, without its name
Body(h, n) == [TreeOf(h, n)[1] EXCEPT !.string = NoName]

EmptyObjectBody ==
  [type |-> "Object", string |-> NoName, valuestring |-> "", valuedouble |-> 0, child |-> <<>>]

\* C10: after WithObject(key, src) the target has a child named key that is
\* an empty object when src had a null root and src's prior tree otherwise;
\* the copy form leaves src as it was and the move form leaves it with a null
\* root.  AsObject(src) with a null-root src leaves the target's root null.
C10_WithObjectNeverNull ==
  [][/\ last'.op \in {"WithObject(const&)", "WithObject(&&)"} =>
          LET src == last'.srcs[1]
              r == docs'[last'.d].m_value
              expected == IF docs[src].m_value = NULL THEN EmptyObjectBody
                          ELSE Body(heap, docs[src].m_value)
          IN /\ r # NULL
             /\ \E c \in Named(heap', r, last'.key) : Body(heap', c) = expected
             /\ \A i \in 1..Len(heap'[r].child) : heap'[r].child[i] # NULL
             /\ last'.op = "WithObject(const&)" => \A x \in Docs : x = src => Untouched(x)
             /\ last'.op = "WithObject(&&)" => docs'[src].m_value = NULL
     /\ (/\ last'.op \in {"AsObject(const&)", "AsObject(&&)"}
         /\ docs[last'.srcs[1]].m_value = NULL) => docs'[last'.d].m_value = NULL
    ]_vars

\* the copy form was given a JsonObject with a null root and stored an empty
\* object under the key
C10_Witness ==
  /\ last.op = "WithObject(const&)"
  /\ docs[last.srcs[1]].m_value = NULL
  /\ \E c \in Named(heap, docs[last.d].m_value, last.key) : Body(heap, c) = EmptyObjectBody

(* ------------------------------ C5 ------------------------------------- *)

MoveAssignOps == {"operator=(&&)", "AsObject(&&)"}

CopyAssignOps == {"operator=(const&)", "AsObject(const&)"}

\* a holds what b held: tree, message and parse flag
Adopted(a, b) ==
  /\ docs'[a].m_value = docs[b].m_value
  /\ docs'[a].m_errorMessage = docs[b].m_errorMessage
  /\ docs'[a].m_wasParseSuccessful = docs[b].m_wasParseSuccessful

SelfAssign ==
  (last'.op \in MoveAssignOps \cup CopyAssignOps /\ last'.d = last'.srcs[1])
     => UNCHANGED <<heap, docs>>

\* C5 as claimed: a = std::move(b) leaves a and b as destroy-then-adopt would:
\* a holds b's prior tree, message and flag, and b is left empty.
C5_AsDestroyThenAdopt ==
  [][/\ (last'.op \in MoveAssignOps /\ last'.d # last'.srcs[1]) =>
          /\ Adopted(last'.d, last'.srcs[1])
          /\ docs'[last'.srcs[1]].m_value = NULL
          /\ docs'[last'.srcs[1]].m_wasParseSuccessful = docs[last'.srcs[1]].m_wasParseSuccessful
     /\ SelfAssign
    ]_vars

\* C5 as amended: a = std::move(b) leaves a holding b's prior tree, message
\* and flag, and leaves b holding a's prior tree and message (and b's own
\* flag); nothing is freed.  Self move- and copy-assignment change nothing.
C5_SwapAssign ==
  [][/\ (last'.op \in MoveAssignOps /\ last'.d # last'.srcs[1]) =>
          /\ Adopted(last'.d, last'.srcs[1])
          /\ docs'[last'.srcs[1]].m_value = docs[last'.d].m_value
          /\ docs'[last'.srcs[1]].m_errorMessage = docs[last'.d].m_errorMessage
          /\ docs'[last'.srcs[1]].m_wasParseSuccessful = docs[last'.srcs[1]].m_wasParseSuccessful
          /\ heap' = heap
     /\ SelfAssign
    ]_vars

\* a tree was move-assigned away to a JsonObject that failed to parse: the
\* source now holds the target's message, and the target the tree
C5_Witness ==
  /\ last.op = "operator=(&&)"
  /\ last.d # last.srcs[1]
  /\ docs[last.d].m_value # NULL
  /\ docs[last.srcs[1]].m_errorMessage # <<>>

(* ------------------------------ C6 ------------------------------------- *)

\* the text does not parse
Malformed(text) == ~cJSON_ParseWithOpts(EmptyHeap, text).ok

\* the mutators that build a value in place
BuilderOps ==
  {"WithString", "WithBool", "WithDouble", "WithArray(Vector<String>)",
   "WithArray(const Vector&)", "WithArray(Vector&&)", "WithObject(const&)",
   "WithObject(&&)", "AsString", "AsBool", "AsInteger", "AsDouble", "AsNull",
   "AsArray(const Vector&)", "AsArray(Vector&&)"}

\* construction from malformed text is flagged, with a message and no tree
FailedParseIsFlagged(c, ds) ==
  (c.op = "JsonObject(String)" /\ Malformed(c.text)) =>
     /\ ~c.abort
     /\ ds[c.d].live
     /\ ~ds[c.d].m_wasParseSuccessful
     /\ ds[c.d].m_errorMessage # <<>>
     /\ ds[c.d].m_value = NULL

KeyedOps ==
  {"WithString", "WithBool", "WithDouble", "WithArray(Vector<String>)",
   "WithArray(const Vector&)", "WithArray(Vector&&)", "WithObject(const&)", "WithObject(&&)"}

\* the children of the root r, and their names
Kids(h, r) == IF r = NULL THEN <<>> ELSE h[r].child

Names(h, r) == [i \in 1..Len(Kids(h, r)) |-> h[Kids(h, r)[i]].string]

\* what With* calls build: nothing yet, or an object whose children have
\* names, no two the same
BuiltByWith(h, r) ==
  \/ r = NULL
  \/ /\ h[r].type = "Object"
     /\ \A i \in 1..Len(Kids(h, r)) : Names(h, r)[i] # NoName
     /\ \A i, j \in 1..Len(Kids(h, r)) : i # j => Names(h, r)[i] # Names(h, r)[j]

\* the position of the child named k, 0 when there is none
PositionOf(names, k) ==
  IF \E i \in DOMAIN names : names[i] = k
  THEN CHOOSE i \in DOMAIN names : names[i] = k /\ \A j \in 1..(i - 1) : names[j] # k
  ELSE 0

\* C2: on a JsonObject built by With* calls, WithX(k, v) replaces the child
\* named k at its position when there is one and appends a child named k
\* otherwise; every other child stays, in the same order; afterwards exactly
\* one child is named k, and after WithString it is the string v.
C2_ReplaceOrAppend ==
  [][(last'.op \in KeyedOps /\ BuiltByWith(heap, docs[last'.d].m_value)) =>
       LET r == docs[last'.d].m_value
           r2 == docs'[last'.d].m_value
           k == last'.key
           pre == Kids(heap, r)
           post == Kids(heap', r2)
           p == PositionOf(Names(heap, r), k)
           q == IF p = 0 THEN Len(pre) + 1 ELSE p
       IN /\ r # NULL => r2 = r
          /\ Len(post) = (IF p = 0 THEN Len(pre) + 1 ELSE Len(pre))
          /\ \A i \in 1..Len(pre) :
               i # p => /\ post[i] = pre[i]
                        /\ TreeOf(heap', post[i]) = TreeOf(heap, pre[i])
          /\ heap'[post[q]].string = k
          /\ p # 0 => post[p] # pre[p]
          /\ Cardinality({i \in 1..Len(post) : heap'[post[i]].string = k}) = 1
          /\ BuiltByWith(heap', r2) /\ r2 # NULL
          /\ last'.op = "WithString" =>
               /\ heap'[post[q]].type = "String"
               /\ heap'[post[q]].valuestring = last'.s
    ]_vars

\* WithString has put "b" in the place of the first of two children
C2_Witness ==
  /\ last.op = "WithString" /\ last.s = "b"
  /\ LET cs == Kids(heap, docs[last.d].m_value)
     IN /\ Len(cs) = 2
        /\ heap[cs[1]].string = last.key
        /\ heap[cs[1]].valuestring = "b"
        /\ heap[cs[2]].string # last.key

(* ------------------------------ C8 ------------------------------------- *)

\* node n is an object with a child named exactly key (and, with notNull,
\* that child is not JSON null)
HasMember(n, key, notNull) ==
  /\ n # NULL
  /\ heap[n].type = "Object"
  /\ \E i \in 1..Len(heap[n].child) :
       /\ heap[heap[n].child[i]].string = key
       /\ notNull => heap[heap[n].child[i]].type # "Null"

\* C8: KeyExists(key) is true iff the node is an object with a child named
\* exactly key, whatever its value; ValueExists(key) is true iff moreover that
\* child is not JSON null; both are false on an unbound view and on a node
\* that is no object.
C8_Existence ==
  /\ last.op = "View.KeyExists" => last.b = HasMember(last.node, last.key, FALSE)
  /\ last.op = "View.ValueExists" => last.b = HasMember(last.node, last.key, TRUE)

\* KeyExists("key") answered false on an object whose only child is "Key"
C8_Witness ==
  /\ last.op = "View.KeyExists" /\ last.key = "key" /\ ~last.b
  /\ last.node # NULL
  /\ Names(heap, last.node) = <<"Key">>

(* ------------------------------ C3 ------------------------------------- *)

AsLeafOps == {"AsString", "AsBool", "AsInteger", "AsDouble", "AsNull"}

LeafTypes(op) ==
  CASE op = "AsString" -> {"String"}
    [] op = "AsBool" -> {"True", "False"}
    [] op \in {"AsInteger", "AsDouble"} -> {"Number"}
    [] op = "AsNull" -> {"Null"}
    [] OTHER -> {}

\* C3: every As* mutator frees the tree the JsonObject held (a freed cell may
\* serve again as the new root) and leaves a fresh leaf of its kind as root.
C3_AsFreesOldTree ==
  [][last'.op \in AsLeafOps =>
       LET r2 == docs'[last'.d].m_value
       IN /\ r2 # NULL
          /\ heap'[r2].type \in LeafTypes(last'.op)
          /\ heap'[r2].child = <<>>
          /\ \A c \in Reach(heap, docs[last'.d].m_value) :
               c = r2 \/ heap'[c].type = "Free"
    ]_vars

(* ------------------------------ C7 ------------------------------------- *)

ViewAsOps ==
  {"View.AsString", "View.AsBool", "View.AsInteger", "View.AsInt64", "View.AsDouble",
   "View.AsObject", "View.AsArray"}

\* the node is of the type the accessor is for
ExpectedType(op, n) ==
  CASE op = "View.AsString" -> cJSON_IsString(heap, n)
    [] op = "View.AsBool" -> cJSON_IsBool(heap, n)
    [] op \in {"View.AsInteger", "View.AsInt64", "View.AsDouble"} -> cJSON_IsNumber(heap, n)
    [] op = "View.AsObject" -> cJSON_IsObject(heap, n)
    [] op = "View.AsArray" -> cJSON_IsArray(heap, n)
    [] OTHER -> TRUE

\* C7: an As accessor called on a node of another type, or on an unbound
\* view, ends in the fatal assertion and returns nothing.
C7_WrongTypeIsFatal ==
  (last.op \in ViewAsOps /\ ~ExpectedType(last.op, last.node)) => last.abort

(* ------------------------------ C9 ------------------------------------- *)

\* JsonObject 2 has just been constructed from the compact text of the view
\* of JsonObject 1
Reparsed ==
  /\ Live(1) /\ Live(2)
  /\ last.op = "JsonObject(String)" /\ last.d = 2
  /\ \E b \in BOOLEAN : last.text = WriteCompact(heap, View(1), b)

WithArrayOps == {"WithArray(const Vector&)", "WithArray(Vector&&)"}

AsArrayOps == {"AsArray(const Vector&)", "AsArray(Vector&&)"}

\* the array the call c has stored: under its key, or as the root
StoredArray(h, ds, c) ==
  IF c.op \in WithArrayOps
  THEN cJSON_GetObjectItemCaseSensitive(h, ds[c.d].m_value, c.key)
  ELSE ds[c.d].m_value

\* the array a view call reads: the child named key, or the node itself
ReadArray(c) ==
  IF c.op = "View.GetArray"
  THEN cJSON_GetObjectItemCaseSensitive(heap, c.node, c.key)
  ELSE c.node

\* the root WithArray adds a member to: none yet, or an object
ObjectOrNull(h, r) == r = NULL \/ h[r].type = "Object"

\* C11: after WithArray(key, docs) on a JsonObject whose root is null or an
\* object, or AsArray(docs) on any JsonObject, by copy or by move, the stored
\* array has as many elements as docs, null-root JsonObjects included,
\* and the i-th is the tree docs[i] held; GetArray(key) and AsArray of a view
\* return one view per element of the array, in order.
C11_ArrayLengthPreserved ==
  /\ [][(\/ last'.op \in AsArrayOps
          \/ (last'.op \in WithArrayOps /\ ObjectOrNull(heap, docs[last'.d].m_value))) =>
          LET a == StoredArray(heap', docs', last')
              srcs == last'.srcs
          IN /\ cJSON_IsArray(heap', a)
             /\ Len(heap'[a].child) = Len(srcs)
             /\ \A i \in 1..Len(srcs) :
                  (i <= Len(heap'[a].child) /\ docs[srcs[i]].m_value # NULL) =>
                     TreeOf(heap', heap'[a].child[i]) = TreeOf(heap, docs[srcs[i]].m_value)
       ]_vars
  /\ []((last.op \in {"View.GetArray", "View.AsArray"} /\ ~last.abort) =>
          last.views = heap[ReadArray(last)].child)

\* a vector of one JsonObject with a null root was stored under the key by
\* copy, and the stored array is empty
C11_Witness ==
  /\ last.op = "WithArray(const Vector&)"
  /\ Len(last.srcs) = 1
  /\ docs[last.srcs[1]].m_value = NULL
  /\ cJSON_IsArray(heap, StoredArray(heap, docs, last))
  /\ heap[StoredArray(heap, docs, last)].child = <<>>

====
